---- MODULE Spec2Model ----
(***************************************************************************)
(* The sandbox Instance of rusty-grader (src/instance/model.rs): init, run *)
(* and cleanup of an isolate box, driven by a caller, together with the    *)
(* part of the machine they act on: the environment variables, the user    *)
(* id, the isolate backend's slots, the box directories and the log files. *)
(* With it the grader's task manifest (grader/src/submission/manifest.rs)  *)
(* and results (grader/src/submission/result.rs), and the scoring of a     *)
(* submission's run results into group and submission results.             *)
(***************************************************************************)
EXTENDS Integers, Sequences, FiniteSets, TLC

\* ------------------------------------------------------------------ bounds
\* how many of the latest operations the history keeps
HistLen == 2
\* largest CPU time (seconds) the backend may report for a run
MaxTime == 2
\* largest time_limit (seconds) of an Instance
MaxLimit == 3

\* ------------------------------------------------------- program constants
\* time_limit and memory_limit of the Instances the tests construct
TIME_LIMIT == 1
MEMORY_LIMIT == 512000
\* the slack get_arguments adds for the wall clock and the grace window
WALL_SLACK == 5
EXTRA_SLACK == 1
\* --processes=128
PROCESSES == 128
\* a u64 is held as four digits of this base, least significant first
Limb == 65536

\* ------------------------------------------------------------- the machine
Inst == {1, 2}
BoxIds == {2, 3}

\* files of the tests' fixture directory; the *_wrong_path ones do not exist
InputPaths == {"input.txt", "input.txt_wrong_path"}
BinPaths == {"bin", "bin_wrong_path"}
RunnerPaths == {"run_cpp", "run_cpp_wrong_path"}
ExistingFiles == {"input.txt", "bin", "run_cpp"}

\* PathBuf::default() and PathBuf::join, paths being sequences of components
EmptyPath == << >>
Join(path, name) == Append(path, name)

\* Path::file_name: the last component
FileName(p) == p

\* ------------------------------------------------------------ InstanceError
Ok == [kind |-> "Ok", msg |-> ""]
PermissionError(m) == [kind |-> "PermissionError", msg |-> m]
EnvironmentError(m) == [kind |-> "EnvironmentError", msg |-> m]
\* an unwrap() on None: the thread panics, no InstanceError reaches the caller
Panic == [kind |-> "Panic", msg |-> "called Option::unwrap() on a None value"]

VARIABLES
    uid,          \* what `id -u` prints: "0" for root, or another user's id
    envv,         \* the environment variables that are set
    execs,        \* the commands that can be spawned, of "id", "isolate", "rm"
    altIsDir,     \* ALTERNATIVE_PATH names a directory
    instance,     \* the Instance values
    active,       \* the Instances the caller drives
    slot,         \* the backend's slots: claimed, and the files in <box>/box
    logs,         \* the log files that exist
    hist,         \* the latest operations and their results, oldest first
    last          \* what the latest operation met: backend, rm, measurements,
                  \* args: the arguments a run gave the backend;
                  \* odd: the number of operations so far is odd
VARIABLES
    yaml,         \* the manifest source: the mapping load_yaml returns
    manifest,     \* what Manifest::from made of it
    run_result,   \* the RunResults of the tests judged so far
    group_result, \* the GroupResults of the groups scored so far
    submission    \* the SubmissionResult

grader == <<yaml, manifest, run_result, group_result, submission>>
judge == <<uid, envv, execs, altIsDir, instance, active, slot, logs, hist, last>>
vars == <<uid, envv, execs, altIsDir, instance, active, slot, logs, hist, last,
          yaml, manifest, run_result, group_result, submission>>
environment == <<uid, envv, execs, altIsDir, active>>

EnvNames == {"ISOLATE_PATH", "TEMPORARY_PATH", "ALTERNATIVE_PATH"}
Commands == {"id", "isolate", "rm"}

\* get_env: Ok(value) when the variable is set, EnvironmentError otherwise
get_env(name) ==
    IF name \in envv THEN Ok
    ELSE EnvironmentError("cannot get " \o name \o " from env")

\* LogFileName giving every box the same file name
LogFileName_shared(box_id) == <<"tmp_log_", ".txt">>
\* format!("tmp_log_{}.txt", box_id)
LogFileName(box_id) == <<"tmp_log_", box_id, ".txt">>
\* PathBuf::from(tmp_path).join(...)
LogFilePath(box_id) == Join(<<"TEMPORARY_PATH">>, LogFileName(box_id))

\* what `isolate --init` prints for a box: its directory and a newline
BoxRoot(box_id) == <<"/var/local/lib/isolate", box_id>>
\* str::strip_suffix("\n"): Some(the text before it), or None
None == [some |-> FALSE, val |-> << >>]
Some(v) == [some |-> TRUE, val |-> v]
strip_suffix(text) ==
    IF Len(text) > 0 /\ text[Len(text)] = "\n"
    THEN Some(SubSeq(text, 1, Len(text) - 1))
    ELSE None

NewInstance(b, inp, bin, runner) ==
    [box_path |-> EmptyPath, log_file |-> EmptyPath, box_id |-> b,
     bin_path |-> bin, time_limit |-> TIME_LIMIT, memory_limit |-> MEMORY_LIMIT,
     input_path |-> inp, output_path |-> "output.txt", runner_path |-> runner]

FreeSlot == [claimed |-> FALSE, files |-> {}]

\* one operation of the history
NoRun == [exit |-> "none", metrics |-> "none", time |-> 0, memory |-> 0]
Detail(backend, rm, verdict, meas, retry) ==
    [backend |-> backend, rm |-> rm, verdict |-> verdict, meas |-> meas,
     retry |-> retry, odd |-> FALSE, args |-> << >>, raced |-> FALSE]
Record(i, op, res, detail) ==
    /\ hist' = LET e == [inst |-> i, op |-> op, res |-> res]
               IN  IF Len(hist) < HistLen THEN Append(hist, e)
                   ELSE Append(Tail(hist), e)
    /\ last' = [detail EXCEPT !.odd = ~last.odd]
MemValues == {0, MEMORY_LIMIT}

\* ------------------------------------------------------------------- init
\* check_root_permission: `id -u` must print 0
check_root_permission ==
    IF "id" \notin execs THEN PermissionError("unable to get current user id")
    ELSE IF uid = "0" THEN Ok
    ELSE PermissionError("isolate must be run as root")

\* `isolate --init --cg -b <box_id>` run as root: a free slot is claimed and
\* its directory printed; on a slot still claimed the backend either makes
\* the box anew or refuses and prints nothing, depending on its version
BackendInit(b, s) ==
    LET fresh(how) == [stdout |-> Append(BoxRoot(b), "\n"),
                       slot |-> [claimed |-> TRUE, files |-> {}], how |-> how]
    IN  IF ~s.claimed THEN {fresh("fresh")}
        ELSE {fresh("reinit"),
              [stdout |-> << >>, slot |-> s, how |-> "refused"]}

\* fs::copy(src, <box>/dst): fails when src does not exist
copy(src, dst, files) ==
    IF src \in ExistingFiles THEN [ok |-> TRUE, files |-> files \cup {dst}]
    ELSE [ok |-> FALSE, files |-> files]

\* StageFiles copying the runner before the binary
StageFiles_runnerFirst(self, files) ==
    LET c1 == copy(self.input_path, "input", files)
        c2 == copy(self.runner_path, "runner", c1.files)
        c3 == copy(self.bin_path, FileName(self.bin_path), c2.files)
    IN  IF ~c1.ok THEN
            [res |-> PermissionError("Unable to copy input file into box directory"),
             files |-> c1.files]
        ELSE IF ~c2.ok THEN
            [res |-> PermissionError("Unable to copy runner script into box directory"),
             files |-> c2.files]
        ELSE IF ~c3.ok THEN
            [res |-> PermissionError("Unable to copy user exec file into box directory"),
             files |-> c3.files]
        ELSE [res |-> Ok, files |-> c3.files]

\* StageFiles reporting every failed copy as the input's
StageFiles_oneMessage(self, files) ==
    LET c1 == copy(self.input_path, "input", files)
        c2 == copy(self.bin_path, FileName(self.bin_path), c1.files)
        c3 == copy(self.runner_path, "runner", c2.files)
    IN  IF c1.ok /\ c2.ok /\ c3.ok THEN [res |-> Ok, files |-> c3.files]
        ELSE [res |-> PermissionError("Unable to copy user exec file into box directory"),
              files |-> IF ~c1.ok THEN c1.files ELSE IF ~c2.ok THEN c2.files ELSE c3.files]

\* the three copies of init, each ending init when it fails
StageFiles(self, files) ==
    LET c1 == copy(self.input_path, "input", files)
        c2 == copy(self.bin_path, FileName(self.bin_path), c1.files)
        c3 == copy(self.runner_path, "runner", c2.files)
    IN  IF ~c1.ok THEN
            [res |-> PermissionError("Unable to copy input file into box directory"),
             files |-> c1.files]
        ELSE IF ~c2.ok THEN
            [res |-> PermissionError("Unable to copy user exec file into box directory"),
             files |-> c2.files]
        ELSE IF ~c3.ok THEN
            [res |-> PermissionError("Unable to copy runner script into box directory"),
             files |-> c3.files]
        ELSE [res |-> Ok, files |-> c3.files]

\* the source files of self that do not exist
Missing(self) ==
    {f \in {self.input_path, self.bin_path, self.runner_path} : f \notin ExistingFiles}

\* InitAfterBackend assigning log_file only once every file is staged
InitAfterBackend_logAfterStaging(self, out) ==
    LET stripped == strip_suffix(out.stdout)
        box_path == Join(stripped.val, "box")
        staged == StageFiles(self, out.slot.files)
        at(res, bp, lf, files) ==
            [res |-> res, box_path |-> bp, log_file |-> lf,
             slot |-> [out.slot EXCEPT !.files = files], backend |-> out.how]
    IN  IF stripped = None THEN
            at(Panic, self.box_path, self.log_file, out.slot.files)
        ELSE IF get_env("TEMPORARY_PATH") # Ok THEN
            at(get_env("TEMPORARY_PATH"), box_path, self.log_file, out.slot.files)
        ELSE IF staged.res # Ok THEN
            at(staged.res, box_path, self.log_file, staged.files)
        ELSE at(staged.res, box_path, LogFilePath(self.box_id), staged.files)

\* init from the backend's answer on: box_path, TEMPORARY_PATH, log_file, staging
InitAfterBackend(self, out) ==
    LET stripped == strip_suffix(out.stdout)
        box_path == Join(stripped.val, "box")
        staged == StageFiles(self, out.slot.files)
        at(res, bp, lf, files) ==
            [res |-> res, box_path |-> bp, log_file |-> lf,
             slot |-> [out.slot EXCEPT !.files = files], backend |-> out.how]
    IN  IF stripped = None THEN
            at(Panic, self.box_path, self.log_file, out.slot.files)
        ELSE IF get_env("TEMPORARY_PATH") # Ok THEN
            at(get_env("TEMPORARY_PATH"), box_path, self.log_file, out.slot.files)
        ELSE at(staged.res, box_path, LogFilePath(self.box_id), staged.files)

\* InitOutcomes asking the backend for the slot before it checks the user id
InitOutcomes_rootLast(self, s) ==
    LET stay(res, backend) ==
            [res |-> res, box_path |-> self.box_path, log_file |-> self.log_file,
             slot |-> s, backend |-> backend]
    IN  IF get_env("ISOLATE_PATH") # Ok THEN {stay(get_env("ISOLATE_PATH"), "none")}
        ELSE IF "isolate" \notin execs THEN
            {stay(PermissionError("Unable to run isolate --init command."), "spawnfail")}
        ELSE {IF check_root_permission # Ok
              THEN [InitAfterBackend(self, out) EXCEPT !.res = check_root_permission]
              ELSE InitAfterBackend(self, out)
              : out \in BackendInit(self.box_id, s)}

\* every way init can end when the slot of self.box_id is s: result, fields
\* assigned, slot left behind
InitOutcomes(self, s) ==
    LET stay(res, backend) ==
            [res |-> res, box_path |-> self.box_path, log_file |-> self.log_file,
             slot |-> s, backend |-> backend]
    IN  IF check_root_permission # Ok THEN {stay(check_root_permission, "none")}
        ELSE IF get_env("ISOLATE_PATH") # Ok THEN {stay(get_env("ISOLATE_PATH"), "none")}
        ELSE IF "isolate" \notin execs THEN
            {stay(PermissionError("Unable to run isolate --init command."), "spawnfail")}
        ELSE {InitAfterBackend(self, out) : out \in BackendInit(self.box_id, s)}

\* the errors of the three copies
StagingErrors ==
    {PermissionError("Unable to copy input file into box directory"),
     PermissionError("Unable to copy user exec file into box directory"),
     PermissionError("Unable to copy runner script into box directory")}

\* history only: this init of i, with every source file present, follows
\* i's cleanup, which followed an init of i that failed at a copy
IsRetry(i) ==
    /\ Len(hist) >= 2
    /\ hist[Len(hist) - 1].inst = i /\ hist[Len(hist) - 1].op = "init"
    /\ hist[Len(hist) - 1].res \in StagingErrors
    /\ hist[Len(hist)].inst = i /\ hist[Len(hist)].op = "cleanup"
    /\ Missing(instance[i]) = {}

init(i) ==
    /\ i \in active
    /\ \E o \in InitOutcomes(instance[i], slot[instance[i].box_id]) :
        /\ instance' = [instance EXCEPT ![i].box_path = o.box_path,
                                        ![i].log_file = o.log_file]
        /\ slot' = [slot EXCEPT ![instance[i].box_id] = o.slot]
        /\ Record(i, "init", o.res,
                  Detail(o.backend, "none", "none", NoRun, IsRetry(i)))
    /\ UNCHANGED <<environment, logs, grader>>

\* ---------------------------------------------------------------- cleanup
\* `isolate --cleanup --cg -b <box_id>`: root releases the slot, claimed or
\* not; another user does so only where the backend is installed setuid
BackendCleanup(b) ==
    LET released == [slot |-> FreeSlot, how |-> "released"]
    IN  IF uid = "0" THEN {released}
        ELSE {released, [slot |-> slot[b], how |-> "failed"]}

\* `rm <log_file>`: removes the file when it exists, fails otherwise
RemoveLog(path) ==
    IF path \in logs THEN [logs |-> logs \ {path}, how |-> "removed"]
    ELSE [logs |-> logs, how |-> "failed"]

\* CleanupOutcomes reading the exit status of rm
CleanupOutcomes_rmStatus(self) ==
    LET stay(res, backend, rm) ==
            [res |-> res, slot |-> slot[self.box_id], logs |-> logs,
             backend |-> backend, rm |-> rm]
    IN  IF get_env("ISOLATE_PATH") # Ok THEN {stay(get_env("ISOLATE_PATH"), "none", "none")}
        ELSE IF "isolate" \notin execs THEN
            {stay(PermissionError("Unable to cleanup isolate --cleanup command."),
                  "spawnfail", "none")}
        ELSE {IF "rm" \notin execs \/ RemoveLog(self.log_file).how = "failed" THEN
                  [res |-> PermissionError("Unable to remove log file."),
                   slot |-> out.slot, logs |-> logs,
                   backend |-> out.how, rm |-> "failed"]
              ELSE [res |-> Ok, slot |-> out.slot,
                    logs |-> RemoveLog(self.log_file).logs,
                    backend |-> out.how, rm |-> RemoveLog(self.log_file).how]
              : out \in BackendCleanup(self.box_id)}

\* CleanupOutcomes removing the log file only, the slot left to the backend
CleanupOutcomes_noRelease(self) ==
    LET stay(res, backend, rm) ==
            [res |-> res, slot |-> slot[self.box_id], logs |-> logs,
             backend |-> backend, rm |-> rm]
    IN  IF get_env("ISOLATE_PATH") # Ok THEN {stay(get_env("ISOLATE_PATH"), "none", "none")}
        ELSE IF "rm" \notin execs THEN
            {stay(PermissionError("Unable to remove log file."), "none", "spawnfail")}
        ELSE {[res |-> Ok, slot |-> slot[self.box_id],
               logs |-> RemoveLog(self.log_file).logs,
               backend |-> "none", rm |-> RemoveLog(self.log_file).how]}

\* every way cleanup can end; the exit status of neither command is read
CleanupOutcomes(self) ==
    LET stay(res, backend, rm) ==
            [res |-> res, slot |-> slot[self.box_id], logs |-> logs,
             backend |-> backend, rm |-> rm]
    IN  IF get_env("ISOLATE_PATH") # Ok THEN {stay(get_env("ISOLATE_PATH"), "none", "none")}
        ELSE IF "isolate" \notin execs THEN
            {stay(PermissionError("Unable to cleanup isolate --cleanup command."),
                  "spawnfail", "none")}
        ELSE {IF "rm" \notin execs THEN
                  [res |-> PermissionError("Unable to remove log file."),
                   slot |-> out.slot, logs |-> logs,
                   backend |-> out.how, rm |-> "spawnfail"]
              ELSE [res |-> Ok, slot |-> out.slot,
                    logs |-> RemoveLog(self.log_file).logs,
                    backend |-> out.how, rm |-> RemoveLog(self.log_file).how]
              : out \in BackendCleanup(self.box_id)}

cleanup(i) ==
    /\ i \in active
    /\ \E o \in CleanupOutcomes(instance[i]) :
        /\ slot' = [slot EXCEPT ![instance[i].box_id] = o.slot]
        /\ logs' = o.logs
        /\ Record(i, "cleanup", o.res, Detail(o.backend, o.rm, "none", NoRun, FALSE))
    /\ UNCHANGED <<environment, instance, grader>>
\* -------------------------------------------------------------------- run
\* get_arguments giving the wall clock no slack over the CPU time limit
get_arguments_noSlack(self) ==
    LET args == <<"-b", self.box_id, "-M", self.log_file,
                  "-t", self.time_limit,
                  "-w", self.time_limit,
                  "-x", self.time_limit + EXTRA_SLACK,
                  "-i", "input", "-o", "output", "--run", "--", "runner",
                  "--cg", "--cg-timing", <<"--processes=", PROCESSES>>,
                  <<"--cg-mem=", self.memory_limit>> >>
    IN  IF get_env("ALTERNATIVE_PATH") # Ok THEN
            [res |-> get_env("ALTERNATIVE_PATH"), args |-> << >>]
        ELSE IF altIsDir THEN
            [res |-> Ok, args |-> Append(args, <<"--dir=", "ALTERNATIVE_PATH">>)]
        ELSE [res |-> Ok, args |-> args]

\* get_arguments: the backend's arguments, or the error of get_env
get_arguments(self) ==
    LET args == <<"-b", self.box_id, "-M", self.log_file,
                  "-t", self.time_limit,
                  "-w", self.time_limit + WALL_SLACK,
                  "-x", self.time_limit + EXTRA_SLACK,
                  "-i", "input", "-o", "output", "--run", "--", "runner",
                  "--cg", "--cg-timing", <<"--processes=", PROCESSES>>,
                  <<"--cg-mem=", self.memory_limit>> >>
    IN  IF get_env("ALTERNATIVE_PATH") # Ok THEN
            [res |-> get_env("ALTERNATIVE_PATH"), args |-> << >>]
        ELSE IF altIsDir THEN
            [res |-> Ok, args |-> Append(args, <<"--dir=", "ALTERNATIVE_PATH">>)]
        ELSE [res |-> Ok, args |-> args]

\* `isolate <args>`: what the backend reports of the run. It measures the
\* program when the box holds the runner and the log file can be written;
\* it can always fail without metrics
BackendRun(self) ==
    {[exit |-> "fail", metrics |-> "none", time |-> 0, memory |-> 0]}
    \cup
    IF slot[self.box_id].claimed /\ "runner" \in slot[self.box_id].files
       /\ self.log_file # EmptyPath
    THEN [exit : {"ok", "fail"}, metrics : {"parsed"},
          time : 0..MaxTime, memory : MemValues]
    ELSE {}

\* the InstanceResult run builds, whatever the backend reported
RunResult(meas) ==
    [status |-> "OK", time_usage |-> 1, memory_usage |-> 1]

\* RunOutcomes reading the backend's exit status
RunOutcomes_exitStatus(self) ==
    LET stay(res, backend) ==
            [res |-> res, backend |-> backend, verdict |-> "none", meas |-> NoRun,
             args |-> << >>]
    IN  IF get_arguments(self).res # Ok THEN {stay(get_arguments(self).res, "none")}
        ELSE IF get_env("ISOLATE_PATH") # Ok THEN {stay(get_env("ISOLATE_PATH"), "none")}
        ELSE IF "isolate" \notin execs THEN
            {stay(PermissionError("Unable to run isolate."), "spawnfail")}
        ELSE {[res |-> IF meas.exit = "ok" THEN Ok
                       ELSE PermissionError("Unable to run isolate."),
               backend |-> "ran",
               verdict |-> RunResult(meas).status, meas |-> meas,
               args |-> get_arguments(self).args]
              : meas \in BackendRun(self)}

\* every way run can end
RunOutcomes(self) ==
    LET stay(res, backend) ==
            [res |-> res, backend |-> backend, verdict |-> "none", meas |-> NoRun,
             args |-> << >>]
    IN  IF get_arguments(self).res # Ok THEN {stay(get_arguments(self).res, "none")}
        ELSE IF get_env("ISOLATE_PATH") # Ok THEN {stay(get_env("ISOLATE_PATH"), "none")}
        ELSE IF "isolate" \notin execs THEN
            {stay(PermissionError("Unable to run isolate."), "spawnfail")}
        ELSE {[res |-> Ok, backend |-> "ran",
               verdict |-> RunResult(meas).status, meas |-> meas,
               args |-> get_arguments(self).args]
              : meas \in BackendRun(self)}

\* history only: this run of i follows the cleanup of another Instance on the
\* same box_id, which followed a successful init of i
IsRaced(i) ==
    /\ Len(hist) >= 2
    /\ hist[Len(hist) - 1].inst = i /\ hist[Len(hist) - 1].op = "init"
    /\ hist[Len(hist) - 1].res = Ok
    /\ hist[Len(hist)].inst # i /\ hist[Len(hist)].op = "cleanup"
    /\ instance[hist[Len(hist)].inst].box_id = instance[i].box_id

\* run forgetting the log file of the Instance
run_forgetLog(i) ==
    /\ i \in active
    /\ \E o \in RunOutcomes(instance[i]) :
        /\ logs' = IF o.meas.metrics = "parsed"
                   THEN logs \cup {instance[i].log_file} ELSE logs
        /\ slot' = IF o.meas.metrics = "parsed"
                   THEN [slot EXCEPT ![instance[i].box_id].files = @ \cup {"output"}]
                   ELSE slot
        /\ Record(i, "run", o.res,
                  [Detail(o.backend, "none", o.verdict, o.meas, FALSE)
                   EXCEPT !.args = o.args, !.raced = IsRaced(i)])
    /\ instance' = [instance EXCEPT ![i].log_file = EmptyPath]
    /\ UNCHANGED <<environment, grader>>

run(i) ==
    /\ i \in active
    /\ \E o \in RunOutcomes(instance[i]) :
        /\ logs' = IF o.meas.metrics = "parsed"
                   THEN logs \cup {instance[i].log_file} ELSE logs
        /\ slot' = IF o.meas.metrics = "parsed"
                   THEN [slot EXCEPT ![instance[i].box_id].files = @ \cup {"output"}]
                   ELSE slot
        /\ Record(i, "run", o.res,
                  [Detail(o.backend, "none", o.verdict, o.meas, FALSE)
                   EXCEPT !.args = o.args, !.raced = IsRaced(i)])
    /\ UNCHANGED <<environment, instance, grader>>

\* ----------------------------------------------------------------- caller
\* the caller assigns one of the public path fields of an Instance
Configure(i) ==
    /\ i \in active
    /\ \/ \E p \in InputPaths \ {instance[i].input_path} :
             instance' = [instance EXCEPT ![i].input_path = p]
       \/ \E p \in BinPaths \ {instance[i].bin_path} :
             instance' = [instance EXCEPT ![i].bin_path = p]
       \/ \E p \in RunnerPaths \ {instance[i].runner_path} :
             instance' = [instance EXCEPT ![i].runner_path = p]
    /\ UNCHANGED <<environment, slot, logs, hist, last, grader>>

\* ---------------------------------------------------------------- grader
\* `n as u64` of an i64 n: its two's complement, the upper digits the sign's
as_u64(n) ==
    <<n % Limb, (n \div Limb) % Limb,
      IF n < 0 THEN Limb - 1 ELSE 0, IF n < 0 THEN Limb - 1 ELSE 0>>
\* a u64 below the base, and its value
u64_small(u) == u[2] = 0 /\ u[3] = 0 /\ u[4] = 0
u64_value(u) == u[1]
\* a + b of two u64, where the sum does not overflow
u64_add(a, b) ==
    LET s1 == a[1] + b[1]
        s2 == a[2] + b[2] + (s1 \div Limb)
        s3 == a[3] + b[3] + (s2 \div Limb)
        s4 == a[4] + b[4] + (s3 \div Limb)
    IN  <<s1 % Limb, s2 % Limb, s3 % Limb, s4 % Limb>>

\* an f64 score, held exactly as a fraction with a positive denominator
Frac(n, d) == [num |-> n, den |-> d]
FracAdd(a, b) == Frac(a.num * b.den + b.num * a.den, a.den * b.den)
FracEq(a, b) == a.num * b.den = b.num * a.den
FracLeq(a, b) == a.num * b.den <= b.num * a.den

\* the values the groups of a manifest source declare
FullScores == {40, 60}
TestCounts == {-1, 0, 2, 3}
GroupDecls == [full_score : FullScores, tests : TestCounts]
\* manifest sources: with or without task_id, with or without groups, the
\* groups a sequence of one or two mappings
YamlSources ==
    [task_id : BOOLEAN, has_groups : {TRUE},
     groups : {<<g>> : g \in GroupDecls}
              \cup {<<g, h>> : g \in GroupDecls, h \in GroupDecls}]
    \cup [task_id : BOOLEAN, has_groups : {FALSE}, groups : {<< >>}]

NoManifest == [made |-> FALSE, panicked |-> FALSE, groups |-> << >>]
NoSubmission ==
    [made |-> FALSE, score |-> Frac(0, 1), full_score |-> as_u64(0),
     group_result |-> << >>]

\* Manifest::from: the groups as (full_score, test_count) pairs of u64; an
\* unwrap() of a missing task_id or groups panics
ManifestGroups(y) ==
    [k \in 1..Len(y.groups) |->
        <<as_u64(y.groups[k].full_score), as_u64(y.groups[k].tests)>>]

Manifest_from ==
    /\ ~manifest.made /\ ~manifest.panicked
    /\ manifest' = IF yaml.task_id /\ yaml.has_groups
                   THEN [made |-> TRUE, panicked |-> FALSE,
                         groups |-> ManifestGroups(yaml)]
                   ELSE [NoManifest EXCEPT !.panicked = TRUE]
    /\ UNCHANGED <<judge, yaml, run_result, group_result, submission>>

\* RunResult::from: score and status are the defaults
RunResult_from(index, time_usage, memory_usage) ==
    [test_index |-> index, status |-> "", time_usage |-> time_usage,
     memory_usage |-> memory_usage, score |-> Frac(0, 1)]

\* GroupResult::from leaving full_score the default too
GroupResult_from_defaultFullScore(full_score, index) ==
    [full_score |-> as_u64(0), group_index |-> index,
     score |-> Frac(0, 1), run_result |-> << >>]

\* GroupResult::from: score and run_result are the defaults
GroupResult_from(full_score, index) ==
    [full_score |-> full_score, group_index |-> index,
     score |-> Frac(0, 1), run_result |-> << >>]

\* a manifest the scoring accepts: every group has tests, and counts and
\* scores are below the base
ScorableManifest ==
    /\ manifest.made
    /\ \A k \in 1..Len(manifest.groups) :
        /\ u64_small(manifest.groups[k][1]) /\ u64_small(manifest.groups[k][2])
        /\ u64_value(manifest.groups[k][2]) > 0

\* the test indices of group k: contiguous, after those of the groups before
RECURSIVE TestsBefore(_)
TestsBefore(k) ==
    IF k = 1 THEN 0
    ELSE TestsBefore(k - 1) + u64_value(manifest.groups[k - 1][2])
TestsOf(k) ==
    (TestsBefore(k) + 1)..(TestsBefore(k) + u64_value(manifest.groups[k][2]))
GroupOf(t) == CHOOSE k \in 1..Len(manifest.groups) : t \in TestsOf(k)
Tests == IF ScorableManifest THEN 1..TestsBefore(Len(manifest.groups) + 1) ELSE {}

\* score_test: the checker's verdict scaled to the weight of one test of the
\* group, full_score / test_count
score_test(t, passed) ==
    /\ ScorableManifest /\ ~submission.made
    /\ t \in Tests
    /\ \A r \in run_result : r.test_index # t
    /\ LET g == manifest.groups[GroupOf(t)]
           weight == Frac(u64_value(g[1]), u64_value(g[2]))
       IN  run_result' = run_result \cup
               {[RunResult_from(t, 0, 0) EXCEPT
                   !.status = IF passed THEN "OK" ELSE "WA",
                   !.score = IF passed THEN weight ELSE Frac(0, 1)]}
    /\ UNCHANGED <<judge, yaml, manifest, group_result, submission>>

\* the RunResults of group k, ordered by test index
RunsOf(k) ==
    [n \in 1..u64_value(manifest.groups[k][2]) |->
        CHOOSE r \in run_result : r.test_index = TestsBefore(k) + n]

\* the default grouper: the fraction of the tests that scored their full
\* weight, scaled by full_score
DefaultGrouper(runs, full_score) ==
    LET weight == Frac(u64_value(full_score), Len(runs))
        full == {n \in 1..Len(runs) : FracEq(runs[n].score, weight)}
    IN  Frac(Cardinality(full) * u64_value(full_score), Len(runs))

\* score_group: the GroupResult of group k, once all its tests are judged
score_group(k) ==
    /\ ScorableManifest /\ ~submission.made
    /\ k \in 1..Len(manifest.groups)
    /\ \A g \in group_result : g.group_index # k
    /\ \A t \in TestsOf(k) : \E r \in run_result : r.test_index = t
    /\ group_result' = group_result \cup
           {[GroupResult_from(manifest.groups[k][1], k) EXCEPT
               !.run_result = RunsOf(k),
               !.score = DefaultGrouper(RunsOf(k), manifest.groups[k][1])]}
    /\ UNCHANGED <<judge, yaml, manifest, run_result, submission>>

\* the sums of score and of full_score over a sequence of GroupResults
RECURSIVE SumScore(_)
SumScore(gs) ==
    IF gs = << >> THEN Frac(0, 1) ELSE FracAdd(gs[1].score, SumScore(Tail(gs)))
RECURSIVE SumFullScore(_)
SumFullScore(gs) ==
    IF gs = << >> THEN as_u64(0)
    ELSE u64_add(gs[1].full_score, SumFullScore(Tail(gs)))

\* score_submission: straight sums over the groups, in group order
score_submission ==
    /\ ScorableManifest /\ ~submission.made
    /\ \A k \in 1..Len(manifest.groups) : \E g \in group_result : g.group_index = k
    /\ LET gs == [k \in 1..Len(manifest.groups) |->
                     CHOOSE g \in group_result : g.group_index = k]
       IN  submission' = [made |-> TRUE, score |-> SumScore(gs),
                          full_score |-> SumFullScore(gs), group_result |-> gs]
    /\ UNCHANGED <<judge, yaml, manifest, run_result, group_result>>

\* no manifest loaded, nothing judged
GraderIdle ==
    /\ yaml = [task_id |-> FALSE, has_groups |-> FALSE, groups |-> << >>]
    /\ manifest = NoManifest
    /\ run_result = {}
    /\ group_result = {}
    /\ submission = NoSubmission

\* ---------------------------------------------------------- specification
\* a slot as a caller can find it: free, or left claimed by an earlier judge
FoundSlots ==
    {FreeSlot, [claimed |-> TRUE, files |-> {}],
     [claimed |-> TRUE, files |-> {"input", "bin", "runner", "output"}]}

\* what is wrong with an environment, the caller's user id apart
Faults ==
    {n \in EnvNames : n \notin envv} \cup {c \in Commands : c \notin execs}
    \cup {d \in {"ALTERNATIVE_PATH is no directory"} :
            "ALTERNATIVE_PATH" \in envv /\ ~altIsDir}

\* any user id, in an environment where at most one thing is wrong
InitEnvironment ==
    /\ uid \in {"0", "1000"}
    /\ envv \in SUBSET EnvNames
    /\ execs \in SUBSET Commands
    /\ altIsDir \in BOOLEAN
    /\ (altIsDir => "ALTERNATIVE_PATH" \in envv)
    /\ \A f, g \in Faults : f = g

\* one Instance, on box 2, in any environment
Init ==
    /\ InitEnvironment
    /\ active = {1}
    /\ \E inp \in InputPaths, bin \in BinPaths, runner \in RunnerPaths :
         instance = [i \in Inst |-> NewInstance(IF i = 1 THEN 2 ELSE 3, inp, bin, runner)]
    /\ slot \in [BoxIds -> FoundSlots]
    /\ slot[3] = FreeSlot
    /\ logs \in SUBSET {LogFilePath(2)}
    /\ hist = << >>
    /\ last = Detail("none", "none", "none", NoRun, FALSE)
    /\ GraderIdle

Next ==
    \E i \in Inst : init(i) \/ run(i) \/ cleanup(i) \/ Configure(i)

Spec == Init /\ [][Next]_vars

\* one Instance of any time and memory limit, its files in place, driven by
\* root where the backend works; ALTERNATIVE_PATH unset, set, or a directory
MemoryLimits == {MEMORY_LIMIT, 2 * MEMORY_LIMIT}
InitLimits ==
    /\ uid = "0"
    /\ envv \in {EnvNames, EnvNames \ {"ALTERNATIVE_PATH"}}
    /\ execs = Commands
    /\ altIsDir \in BOOLEAN
    /\ (altIsDir => "ALTERNATIVE_PATH" \in envv)
    /\ active = {1}
    /\ \E t \in 1..MaxLimit, m \in MemoryLimits, b \in BoxIds :
         instance = [i \in Inst |->
                        [NewInstance(b, "input.txt", "bin", "run_cpp")
                         EXCEPT !.time_limit = t, !.memory_limit = m]]
    /\ slot = [b \in BoxIds |-> FreeSlot]
    /\ logs = {}
    /\ hist = << >>
    /\ last = Detail("none", "none", "none", NoRun, FALSE)
    /\ GraderIdle

NextLimits ==
    \E i \in Inst : init(i) \/ run(i) \/ cleanup(i)

SpecLimits == InitLimits /\ [][NextLimits]_vars

\* two Instances driven in any interleaving, on one box_id or on two, by root
\* where nothing is wrong; every slot free and no log file at the start
InitTwo ==
    /\ uid = "0"
    /\ envv = EnvNames
    /\ execs = Commands
    /\ altIsDir \in BOOLEAN
    /\ active = Inst
    /\ \E b \in BoxIds :
         instance = [i \in Inst |->
                        NewInstance(IF i = 1 THEN 2 ELSE b,
                                    "input.txt", "bin", "run_cpp")]
    /\ slot = [b \in BoxIds |-> FreeSlot]
    /\ logs = {}
    /\ hist = << >>
    /\ last = Detail("none", "none", "none", NoRun, FALSE)
    /\ GraderIdle

NextTwo ==
    \E i \in Inst : init(i) \/ run(i) \/ cleanup(i)

SpecTwo == InitTwo /\ [][NextTwo]_vars

\* one submission graded against any manifest source, its tests judged in
\* any order with any outcome; no Instance is driven
InitGrader ==
    /\ uid = "0"
    /\ envv = EnvNames
    /\ execs = Commands
    /\ altIsDir = FALSE
    /\ active = {}
    /\ instance = [i \in Inst |-> NewInstance(2, "input.txt", "bin", "run_cpp")]
    /\ slot = [b \in BoxIds |-> FreeSlot]
    /\ logs = {}
    /\ hist = << >>
    /\ last = Detail("none", "none", "none", NoRun, FALSE)
    /\ yaml \in YamlSources
    /\ manifest = NoManifest
    /\ run_result = {}
    /\ group_result = {}
    /\ submission = NoSubmission

NextGrader ==
    \/ Manifest_from
    \/ \E t \in Tests, passed \in BOOLEAN : score_test(t, passed)
    \/ \E k \in 1..Len(manifest.groups) : score_group(k)
    \/ score_submission

SpecGrader == InitGrader /\ [][NextGrader]_vars
\* ------------------------------------------------------------------ claims
Last == hist[Len(hist)]
Prev == hist[Len(hist) - 1]
\* the latest operation is op of Instance i
Did(i, op) == Len(hist) > 0 /\ Last.inst = i /\ Last.op = op
\* the latest two operations are op1 then op2, both of Instance i
DidBoth(i, op1, op2) ==
    Len(hist) > 1 /\ Prev.inst = i /\ Prev.op = op1 /\ Did(i, op2)
\* this step is op of Instance i (every operation flips last.odd)
Does(i, op) == last'.odd # last.odd /\ hist'[Len(hist')].inst = i
               /\ hist'[Len(hist')].op = op

InputError == PermissionError("Unable to copy input file into box directory")
BinError == PermissionError("Unable to copy user exec file into box directory")
RunnerError == PermissionError("Unable to copy runner script into box directory")

\* the backend can be started and rm can be spawned
CleanupEnv == "ISOLATE_PATH" \in envv /\ {"isolate", "rm"} \subseteq execs
\* the caller is root and init can reach the staging of the files
InitEnv ==
    /\ uid = "0" /\ {"id", "isolate"} \subseteq execs
    /\ {"ISOLATE_PATH", "TEMPORARY_PATH"} \subseteq envv

\* what the caller sees of an init on a slot in state s
InitResults(self, s) ==
    {<<o.res, o.box_path, o.log_file>> : o \in InitOutcomes(self, s)}

\* C1: where the backend can be started and rm spawned, every cleanup
\* returns Ok (so the second of two in a row, and one on an Instance never
\* initialised, whose log_file is empty); after it an init on the same box_id
\* returns and assigns what it would on a free slot, and root finds the slot
\* free and empty.
C1_CleanupIdempotent ==
    \A i \in active :
        (CleanupEnv /\ Did(i, "cleanup")) =>
            /\ Last.res = Ok
            /\ InitResults(instance[i], slot[instance[i].box_id])
                   = InitResults(instance[i], FreeSlot)
            /\ (uid = "0" => slot[instance[i].box_id] = FreeSlot)

\* two cleanups in a row of an Instance never initialised, both Ok, the rm
\* of the empty log path having failed
C1_Witness ==
    /\ DidBoth(1, "cleanup", "cleanup") /\ Prev.res = Ok /\ Last.res = Ok
    /\ instance[1].log_file = EmptyPath /\ last.rm = "failed"
    /\ uid = "0" /\ slot[instance[1].box_id] = FreeSlot

\* C2: an init by root on a free slot, the backend and the storage path
\* available, with an input_path that does not exist returns
\* PermissionError("Unable to copy input file into box directory"); the
\* cleanup that follows it returns Ok (rm being available).
C2_MissingInput ==
    /\ [][\A i \in active :
            (Does(i, "init") /\ InitEnv /\ ~slot[instance[i].box_id].claimed
             /\ instance[i].input_path \notin ExistingFiles)
            => hist'[Len(hist')].res = InputError]_vars
    /\ [](\A i \in active :
            (DidBoth(i, "init", "cleanup") /\ Prev.res = InputError
             /\ "rm" \in execs) => Last.res = Ok)

\* the init failed on the missing input and the cleanup after it returned Ok
C2_Witness ==
    /\ DidBoth(1, "init", "cleanup") /\ Prev.res = InputError /\ Last.res = Ok
    /\ instance[1].input_path \notin ExistingFiles

\* the result and the box content of a staging with the given files missing
FirstMissing(self) ==
    IF self.input_path \notin ExistingFiles THEN [res |-> InputError, files |-> {}]
    ELSE IF self.bin_path \notin ExistingFiles THEN
        [res |-> BinError, files |-> {"input"}]
    ELSE IF self.runner_path \notin ExistingFiles THEN
        [res |-> RunnerError, files |-> {"input", FileName(self.bin_path)}]
    ELSE [res |-> Ok, files |-> {"input", FileName(self.bin_path), "runner"}]

\* C3: an init that reaches the staging (the backend granted the slot, the
\* storage path is set) copies input, binary, runner in this order and stops
\* at the first source file that does not exist: its error names that file,
\* the box holds exactly the files before it, and with no file missing it
\* returns Ok with all three in the box.
C3_StagingOrder ==
    [][\A i \in active :
        (Does(i, "init") /\ last'.backend \in {"fresh", "reinit"}
         /\ "TEMPORARY_PATH" \in envv)
        => /\ hist'[Len(hist')].res = FirstMissing(instance[i]).res
           /\ slot'[instance[i].box_id].files = FirstMissing(instance[i]).files]_vars

\* input and binary present, runner missing: the error names the runner and
\* the box holds the two files staged before it
C3_Witness ==
    /\ Did(1, "init") /\ Last.res = RunnerError
    /\ instance[1].input_path \in ExistingFiles
    /\ instance[1].bin_path \in ExistingFiles
    /\ instance[1].runner_path \notin ExistingFiles
    /\ slot[instance[1].box_id].files = {"input", "bin"}

\* C4: after an init that failed at a copy, the cleanup of the same Instance
\* returns Ok (rm being available), and the init that follows it with every
\* source file present returns Ok and stages all three files.
C4_RetryAfterPartialInit ==
    \A i \in active :
        /\ (DidBoth(i, "init", "cleanup") /\ Prev.res \in StagingErrors
            /\ "rm" \in execs) => Last.res = Ok
        /\ (Did(i, "init") /\ last.retry) =>
              /\ Last.res = Ok
              /\ slot[instance[i].box_id] =
                    [claimed |-> TRUE,
                     files |-> {"input", "runner"}
                               \cup {FileName(p) : p \in BinPaths \cap ExistingFiles}]

\* the retried init succeeded after the cleanup
C4_Witness ==
    /\ DidBoth(1, "cleanup", "init") /\ last.retry
    /\ Prev.res = Ok /\ Last.res = Ok
    /\ instance[1].log_file = LogFilePath(instance[1].box_id)
\* C5: the verdict of a run follows the priority XX > TLE > MLE > OT > RE > OK:
\* a run the backend measured at a CPU time at or over time_limit has the
\* verdict TLE, whether its memory stayed under memory_limit or not.
C5_VerdictPriority ==
    \A i \in active :
        (Did(i, "run") /\ Last.res = Ok /\ last.meas.metrics = "parsed"
         /\ last.meas.time >= instance[i].time_limit)
        => last.verdict = "TLE"

\* C6: a run whose backend could not be started, or whose backend left no
\* metrics, ends with the verdict XX, never with OK.
C6_BackendFailureIsXX ==
    \A i \in active :
        (Did(i, "run")
         /\ (last.backend = "spawnfail"
             \/ (last.backend = "ran" /\ last.meas.metrics = "none")))
        => last.verdict = "XX"

\* C7: a cleanup whose backend command exited unsuccessfully, or that left
\* the Instance's log file in place, returns an error.
C7_CleanupFailuresReported ==
    \A i \in active :
        (Did(i, "cleanup")
         /\ (last.backend = "failed" \/ instance[i].log_file \in logs))
        => Last.res # Ok

\* C8: an init whose privilege check fails (the caller is not root, or the
\* user id cannot be obtained) returns that PermissionError without invoking
\* the backend: the slots, the box files, the log files and the Instance's
\* box_path and log_file are as before.
C8_PrivilegeFirst ==
    [][\A i \in active :
        (Does(i, "init") /\ check_root_permission # Ok)
        => /\ hist'[Len(hist')].res = check_root_permission
           /\ hist'[Len(hist')].res.kind = "PermissionError"
           /\ last'.backend = "none"
           /\ slot' = slot /\ logs' = logs /\ instance' = instance]_vars

\* an init by another user than root, where the backend path is not even
\* set, on a claimed slot: the permission error, the slot as it was
C8_Witness ==
    /\ Did(1, "init") /\ uid # "0" /\ "ISOLATE_PATH" \notin envv
    /\ Last.res = PermissionError("isolate must be run as root")
    /\ last.backend = "none"
    /\ instance[1].box_path = EmptyPath /\ instance[1].log_file = EmptyPath

\* C9: a cleanup by a caller who is not root returns an error.
C9_UnprivilegedCleanup ==
    \A i \in active :
        (Did(i, "cleanup") /\ uid # "0") =>
            Last.res.kind \in {"PermissionError", "EnvironmentError"}

\* C10: every init returns Ok or an InstanceError; none panics.
C10_InitNeverPanics ==
    \A i \in active :
        Did(i, "init") => Last.res.kind \in {"Ok", "PermissionError", "EnvironmentError"}
\* the arguments end with the extra mount
HasMount(args) == Len(args) > 0 /\ args[Len(args)][1] = "--dir="

C12_MountOnlyWhenPresent ==
    \A i \in active :
        (Did(i, "run") /\ "ISOLATE_PATH" \in envv /\ "isolate" \in execs) =>
            /\ last.backend = "ran"
            /\ HasMount(last.args) <=> ("ALTERNATIVE_PATH" \in envv /\ altIsDir)
Ops == {"init", "run", "cleanup"}
\* the result of the operation this step is
Res == hist'[Len(hist')].res

\* C13: an operation of an Instance leaves the slot of another box_id as it
\* is, neither creates nor removes the log file of an Instance on another
\* box_id, and leaves that Instance's fields alone; the log file paths of
\* two box_ids differ, and an Instance's log_file is empty or the path of its
\* own box_id.
C13_DistinctBoxesIndependent ==
    [][\A i, j \in active : \A op \in Ops :
        (Does(i, op) /\ instance[i].box_id # instance[j].box_id) =>
            /\ slot'[instance[j].box_id] = slot[instance[j].box_id]
            /\ LogFilePath(instance[i].box_id) # LogFilePath(instance[j].box_id)
            /\ instance'[i].log_file
                   \in {EmptyPath, LogFilePath(instance[i].box_id)}
            /\ (instance[j].log_file \in logs' <=> instance[j].log_file \in logs)
            /\ (LogFilePath(instance[j].box_id) \in logs'
                   <=> LogFilePath(instance[j].box_id) \in logs)
            /\ instance'[j] = instance[j]]_vars

\* Instance 2, on box 3, has cleaned up after its own run, right after an
\* init of Instance 1 on box 2, whose staged files, output and log file are
\* all still there
C13_Witness ==
    /\ Len(hist) > 1 /\ Prev.inst = 1 /\ Prev.op = "init" /\ Prev.res = Ok
    /\ Did(2, "cleanup") /\ Last.res = Ok /\ last.rm = "removed"
    /\ instance[1].box_id # instance[2].box_id
    /\ slot[instance[1].box_id].claimed
    /\ {"input", "bin", "runner"} \subseteq slot[instance[1].box_id].files
    /\ instance[1].log_file \in logs
    /\ ~slot[instance[2].box_id].claimed

\* C16: a run changes no field of any Instance, whatever it returns.
C16_RunKeepsInstance ==
    [][\A i \in active : Does(i, "run") => instance' = instance]_vars

\* a run that returned Ok, and before it one that returned an error, on an
\* Instance whose box_path and log_file an init has assigned
C16_Witness ==
    /\ Did(1, "run") /\ Last.res = Ok /\ last.backend = "ran"
    /\ instance[1].log_file = LogFilePath(instance[1].box_id)
    /\ instance[1].box_path = Join(BoxRoot(instance[1].box_id), "box")

\* C17: an init by root with TEMPORARY_PATH unset, the backend available,
\* returns EnvironmentError and leaves every slot and the Instance's box_path
\* as they were; an operation with ISOLATE_PATH unset that gets as far as
\* the backend path returns EnvironmentError and starts neither the backend
\* nor rm.
C17_EnvironmentErrorBeforeEffect ==
    [][\A i \in active :
        /\ (/\ Does(i, "init") /\ check_root_permission = Ok
            /\ "ISOLATE_PATH" \in envv /\ "isolate" \in execs
            /\ "TEMPORARY_PATH" \notin envv) =>
                /\ Res = EnvironmentError("cannot get TEMPORARY_PATH from env")
                /\ slot' = slot
                /\ instance'[i].box_path = instance[i].box_path
        /\ \A op \in Ops :
            (/\ Does(i, op) /\ "ISOLATE_PATH" \notin envv
             /\ (op = "init" => check_root_permission = Ok)
             /\ (op = "run" => "ALTERNATIVE_PATH" \in envv)) =>
                /\ Res = EnvironmentError("cannot get ISOLATE_PATH from env")
                /\ last'.backend = "none" /\ last'.rm = "none"
                /\ slot' = slot /\ logs' = logs]_vars

\* C18: where nothing is wrong with the environment, a run of an Instance
\* that follows another Instance's cleanup on the same box_id, itself after
\* the first one's successful init, returns Ok with status OK although the
\* slot is released, the backend has measured nothing and the log file the
\* two share is gone.
C18_RunOnReleasedSlot ==
    \A i \in active :
        (Did(i, "run") /\ last.raced) =>
            /\ Last.res = Ok /\ last.verdict = "OK"
            /\ last.backend = "ran" /\ last.meas.metrics = "none"
            /\ ~slot[instance[i].box_id].claimed
            /\ Prev.inst # i /\ Prev.op = "cleanup"
            /\ instance[Prev.inst].box_id = instance[i].box_id
            /\ (instance[Prev.inst].log_file = instance[i].log_file
                    => instance[i].log_file \notin logs)

\* Instance 1 has run, with result Ok, after Instance 2 cleaned up the box
\* they share, both initialised on it
C18_Witness ==
    /\ Did(1, "run") /\ last.raced /\ Last.res = Ok
    /\ Prev.inst = 2 /\ Prev.op = "cleanup" /\ Prev.res = Ok
    /\ instance[1].box_id = instance[2].box_id
    /\ instance[1].log_file = LogFilePath(instance[1].box_id)
    /\ instance[2].log_file = instance[1].log_file
    /\ slot[instance[1].box_id] = FreeSlot
    /\ instance[1].log_file \notin logs

\* C19: an init that fails at a copy has assigned log_file, the log path of
\* its box_id, and box_path, the backend's directory joined with "box"; an
\* init that fails at the privilege check, the backend path or the backend
\* spawn leaves both as they were; after the cleanup that follows a failed
\* staging, where the backend and rm are available, the box's log file does
\* not exist.
C19_FieldsAssignedBeforeStaging ==
    /\ [][\A i \in active :
            Does(i, "init") =>
                /\ Res \in StagingErrors =>
                    /\ instance'[i].log_file = LogFilePath(instance[i].box_id)
                    /\ instance'[i].box_path
                           = Join(BoxRoot(instance[i].box_id), "box")
                /\ (\/ check_root_permission # Ok
                    \/ "ISOLATE_PATH" \notin envv
                    \/ "isolate" \notin execs) =>
                        /\ instance'[i].log_file = instance[i].log_file
                        /\ instance'[i].box_path = instance[i].box_path]_vars
    /\ [](\A i \in active :
            (DidBoth(i, "init", "cleanup") /\ Prev.res \in StagingErrors
             /\ CleanupEnv) =>
                /\ instance[i].log_file = LogFilePath(instance[i].box_id)
                /\ LogFilePath(instance[i].box_id) \notin logs
                /\ last.rm \in {"removed", "failed"})

\* an init failed at the copy of the input, and the cleanup after it removed
\* the log file an earlier judge had left for the box
C19_Witness ==
    /\ DidBoth(1, "init", "cleanup") /\ Prev.res = InputError /\ Last.res = Ok
    /\ instance[1].log_file = LogFilePath(instance[1].box_id)
    /\ instance[1].box_path = Join(BoxRoot(instance[1].box_id), "box")
    /\ last.rm = "removed" /\ logs = {}
\* C14: a Manifest that Manifest::from returned has, for every group, a
\* test_count that is positive and is the number of tests the source
\* declares, itself positive.
C14_TestCountPositive ==
    manifest.made =>
        \A k \in 1..Len(manifest.groups) :
            /\ yaml.groups[k].tests > 0
            /\ manifest.groups[k][2] # as_u64(0)
            /\ u64_small(manifest.groups[k][2])
            /\ u64_value(manifest.groups[k][2]) = yaml.groups[k].tests

\* the sum of the scores of a sequence of RunResults
RECURSIVE SumRuns(_)
SumRuns(rs) ==
    IF rs = << >> THEN Frac(0, 1) ELSE FracAdd(rs[1].score, SumRuns(Tail(rs)))
\* tests 1-3 scored their weight and tests 4-5 scored nothing
ThreePassTwoFail ==
    \A r \in run_result : (r.status = "OK") <=> (r.test_index <= 3)

====
